---- MODULE Spec2Model ----
(***************************************************************************)
(* Model of eppaurora/ionization.py: the numpy array semantics the module  *)
(* relies on (broadcasting, transposition, reshape, np.vectorize with a    *)
(* signature, np.polyval, np.trapz, np.logspace) and the nine functions of *)
(* the module built on them.                                               *)
(*                                                                         *)
(* Floating-point values are modelled in two ways.                         *)
(*  - For questions of WHICH values are combined (shapes, pairing of       *)
(*    elements, quadrature sums) a value is an element of the prime field  *)
(*    GF(Prime): +, -, *, / are the field operations (an exact homomorphic *)
(*    image of rational arithmetic, so decimal literals such as 4e-6 are   *)
(*    represented exactly), and exp, log and ** are fixed injective-ish    *)
(*    functions of their arguments.                                        *)
(*  - For questions of sign, overflow and NaN a value is an IEEE-754       *)
(*    class (NaN, -inf, negative, zero, positive, +inf) and every          *)
(*    operation returns the set of classes rounding can produce.           *)
(***************************************************************************)
EXTENDS Integers, Sequences, FiniteSets, TLC

(***************************************************************************)
(* Bounds of the model.                                                    *)
(***************************************************************************)
\* largest extent of an axis of an argument of a mono-energetic function
MaxDim == 3
\* largest number of spectrum bins (ens, dfluxes) and of grid steps (nstep)
MaxBins == 3
\* largest number of altitudes (scale_height, rho) of an integrator call
MaxAlt == 2

(***************************************************************************)
(* Values: the prime field GF(Prime).                                      *)
(***************************************************************************)
Prime == 10007

Norm(v) == ((v % Prime) + Prime) % Prime
AddF(a, b) == (a + b) % Prime
SubF(a, b) == (a - b + Prime) % Prime
NegF(a) == (Prime - a) % Prime
MulF(a, b) == (a * b) % Prime

\* b^n by repeated squaring
Sq(h) == (h * h) % Prime
RECURSIVE PowMod(_, _)
PowMod(b, n) ==
    IF n = 0 THEN 1
    ELSE IF n % 2 = 1 THEN (Sq(PowMod(b, n \div 2)) * b) % Prime
    ELSE Sq(PowMod(b, n \div 2))

\* the multiplicative inverse (0 for 0: division by zero is outside the claims)
InvF(b) == PowMod(b, Prime - 2)
DivF(a, b) == MulF(a, InvF(b))

\* the decimal literal m * 10^e (e.g. 4e-6 is Dec(4, -6)), exactly, in the field
Dec(m, e) ==
    IF e >= 0 THEN MulF(Norm(m), PowMod(10, e))
    ELSE DivF(Norm(m), PowMod(10, -e))

\* x |-> x^3 is a bijection of GF(Prime) because 3 does not divide Prime - 1
Cube(v) == (((v * v) % Prime) * v) % Prime

\* np.exp, np.log and ** : fixed functions of their arguments; LogF(1) = 0
ExpF(v) == AddF(Cube(AddF(v, 3)), 11)
LogF(v) == MulF(Cube(SubF(v, 1)), 5)
PowF(a, b) == Cube((a * 17 + b * 101 + 7) % Prime)

(***************************************************************************)
(* numpy.ndarray: a shape and the elements in C (row-major) order.         *)
(* A failed operation (numpy raises ValueError) yields ShapeError, which   *)
(* every later operation propagates: the exception leaves the function.    *)
(***************************************************************************)
RECURSIVE Size(_)
Size(shape) == IF shape = <<>> THEN 1 ELSE shape[1] * Size(Tail(shape))

ShapeError == [ok |-> FALSE, shape |-> <<>>, data |-> <<>>]
\* (data \o <<>> is data as a tuple: the elements are computed once, here)
Arr(shape, data) == [ok |-> TRUE, shape |-> shape, data |-> data \o <<>>]
\* a Python scalar or 0-d array
Sc(v) == Arr(<<>>, <<v>>)

\* the multi-index (1-based) of the n-th element (0-based) in C order
RECURSIVE UnravelRest(_, _, _)
UnravelRest(n, shape, rest) ==
    <<(n \div rest) + 1>>
      \o (IF Len(shape) = 1 THEN <<>>
          ELSE UnravelRest(n % rest, Tail(shape), rest \div shape[2]))
Unravel(n, shape) ==
    IF shape = <<>> THEN <<>> ELSE UnravelRest(n, shape, Size(Tail(shape)))

\* the position (0-based) in C order of multi-index idx
RECURSIVE Ravel(_, _)
Ravel(idx, shape) ==
    IF shape = <<>> THEN 0
    ELSE (idx[1] - 1) * Size(Tail(shape)) + Ravel(Tail(idx), Tail(shape))

At(a, idx) == a.data[Ravel(idx, a.shape) + 1]

Reverse(s) == [k \in 1..Len(s) |-> s[Len(s) + 1 - k]]
Max2(a, b) == IF a >= b THEN a ELSE b

\* numpy broadcasting of two shapes: right-aligned, extents equal or 1
PadShape(s, L) == [k \in 1..L |-> IF k <= L - Len(s) THEN 1 ELSE s[k - (L - Len(s))]]
CompatiblePadded(ps, pt) ==
    \A k \in 1..Len(ps) : ps[k] = pt[k] \/ ps[k] = 1 \/ pt[k] = 1
Compatible(s, t) ==
    CompatiblePadded(PadShape(s, Max2(Len(s), Len(t))) \o <<>>,
                     PadShape(t, Max2(Len(s), Len(t))) \o <<>>)
BroadcastPadded(ps, pt) ==
    [k \in 1..Len(ps) |-> IF ps[k] = 1 THEN pt[k] ELSE ps[k]] \o <<>>
BroadcastShape(s, t) ==
    BroadcastPadded(PadShape(s, Max2(Len(s), Len(t))) \o <<>>,
                    PadShape(t, Max2(Len(s), Len(t))) \o <<>>)

\* the element of a that the broadcast result's multi-index idx reads
BAt(a, idx) ==
    At(a, [k \in 1..Len(a.shape) |->
             IF a.shape[k] = 1 THEN 1 ELSE idx[Len(idx) - Len(a.shape) + k]])

\* an elementwise binary ufunc (a * b, a / b, a ** b, a + b, a - b)
Ew2At(Op(_, _), a, b, idx) == Op(BAt(a, idx), BAt(b, idx))
Ew2Shaped(Op(_, _), a, b, bs) ==
    Arr(bs, [n \in 1..Size(bs) |-> Ew2At(Op, a, b, Unravel(n - 1, bs))])
Ew2(Op(_, _), a, b) ==
    IF ~a.ok \/ ~b.ok THEN ShapeError
    ELSE IF ~Compatible(a.shape, b.shape) THEN ShapeError
    ELSE Ew2Shaped(Op, a, b, BroadcastShape(a.shape, b.shape))

\* an elementwise unary ufunc (np.exp, np.log, unary minus)
Ew1(Op(_), a) ==
    IF ~a.ok THEN ShapeError
    ELSE Arr(a.shape, [n \in 1..Size(a.shape) |-> Op(a.data[n])])

Mul(a, b) == Ew2(MulF, a, b)
Div(a, b) == Ew2(DivF, a, b)
Add(a, b) == Ew2(AddF, a, b)
Pow(a, b) == Ew2(PowF, a, b)
Exp(a) == Ew1(ExpF, a)
Log(a) == Ew1(LogF, a)
Neg(a) == Ew1(NegF, a)

\* a.T: the axes reversed
TShaped(a, rs) ==
    Arr(rs, [n \in 1..Size(rs) |-> At(a, Reverse(Unravel(n - 1, rs)))])
T(a) == IF ~a.ok THEN ShapeError ELSE TShaped(a, Reverse(a.shape) \o <<>>)

\* a.reshape(shape) for a shape of the same size: the C order is kept
Reshape(a, shape) ==
    IF ~a.ok THEN ShapeError
    ELSE IF Size(shape) # Size(a.shape) THEN ShapeError
    ELSE Arr(shape, a.data)

\* a.reshape((rows, -1))
ReshapeRows(a, rows) ==
    IF ~a.ok THEN ShapeError
    ELSE IF Size(a.shape) % rows # 0 THEN ShapeError
    ELSE Arr(<<rows, Size(a.shape) \div rows>>, a.data)

\* a[r] for a 2-D array a (r counted from 0)
Row(a, r) ==
    IF ~a.ok THEN ShapeError
    ELSE Arr(<<a.shape[2]>>, [k \in 1..a.shape[2] |-> a.data[r * a.shape[2] + k]])

\* a[:, ::-1] for a 2-D array a
RevColsAt(a, idx) == At(a, <<idx[1], a.shape[2] + 1 - idx[2]>>)
RevCols(a) ==
    IF ~a.ok THEN ShapeError
    ELSE Arr(a.shape, [n \in 1..Size(a.shape) |->
                         RevColsAt(a, Unravel(n - 1, a.shape))])

\* a[None, None, :], and a[:, None] or a[..., None] for a 1-D array a
Lead2(a) == Reshape(a, <<1, 1>> \o a.shape)
Trail1(a) == Reshape(a, a.shape \o <<1>>)

(***************************************************************************)
(* The numpy routines the module calls.                                    *)
(***************************************************************************)
\* np.polyval(p, x) for a 2-D p of shape (m, n) and a scalar x, as numpy
\* computes it: y = zeros_like(x); for pv in p: y = y * x + pv.  Each pv is
\* a row of p, so the result has shape (n,).
RECURSIVE PolyvalLoop(_, _, _, _)
PolyvalLoop(p, x, y, k) ==
    IF k >= p.shape[1] THEN y
    ELSE PolyvalLoop(p, x, Add(Mul(y, x), Row(p, k)), k + 1)

polyval(p, x) == PolyvalLoop(p, x, Sc(0), 0)

\* vpolyval = np.vectorize(np.polyval, signature='(m,n),()->(n)'): the loop
\* runs over the elements of x, and the core dimension n of each result is
\* appended after the loop dimensions: the result has shape x.shape + (n,).
VectorizeCollect(x, n, vals) ==
    Arr(x.shape \o <<n>>,
        [k \in 1..(Size(x.shape) * n) |->
            vals[((k - 1) \div n) + 1][((k - 1) % n) + 1]])
vpolyval(p, x) ==
    IF ~p.ok \/ ~x.ok THEN ShapeError
    ELSE VectorizeCollect(x, p.shape[2],
            [i \in 1..Size(x.shape) |-> polyval(p, Sc(x.data[i])).data] \o <<>>)

\* np.trapz(y, x, axis=-1) for a 1-D x: d = diff(x), reshaped to extend along
\* the last axis of y, and (d * (y[..., 1:] + y[..., :-1]) / 2.0).sum(-1).
\* The last axis of y and d must broadcast; the result drops the last axis.
RECURSIVE SumTo(_, _)
SumTo(f, n) == IF n = 0 THEN 0 ELSE AddF(SumTo(f, n - 1), f[n])

\* dl, sl: the extents of d and of the two slices of y along the last axis
TrapzSum(y, x, m, dl, sl, bl, o) ==
    SumTo([k \in 1..bl |->
             DivF(MulF(SubF(x.data[IF dl = 1 THEN 2 ELSE k + 1],
                            x.data[IF dl = 1 THEN 1 ELSE k]),
                       AddF(y.data[o * m + (IF sl = 1 THEN 2 ELSE k + 1)],
                            y.data[o * m + (IF sl = 1 THEN 1 ELSE k)])),
                  2)] \o <<>>,
          bl)
TrapzOuter(y, x, outer, m, dl, sl) ==
    IF ~(dl = sl \/ dl = 1 \/ sl = 1) THEN ShapeError
    ELSE Arr(outer,
             [o \in 1..Size(outer) |->
                TrapzSum(y, x, m, dl, sl, IF dl = 1 THEN sl ELSE dl, o - 1)])
\* the sum of the samples in place of the quadrature: np.sum(y, axis=-1)
sum_last(y, x) ==
    IF ~y.ok \/ ~x.ok THEN ShapeError
    ELSE IF y.shape = <<>> THEN ShapeError
    ELSE Arr(SubSeq(y.shape, 1, Len(y.shape) - 1),
             [o \in 1..Size(SubSeq(y.shape, 1, Len(y.shape) - 1)) |->
                SumTo([k \in 1..y.shape[Len(y.shape)] |->
                         y.data[(o - 1) * y.shape[Len(y.shape)] + k]] \o <<>>,
                      y.shape[Len(y.shape)])])

trapz(y, x) ==
    IF ~y.ok \/ ~x.ok THEN ShapeError
    ELSE IF y.shape = <<>> THEN ShapeError
    ELSE TrapzOuter(y, x, SubSeq(y.shape, 1, Len(y.shape) - 1),
                    y.shape[Len(y.shape)], x.shape[1] - 1,
                    y.shape[Len(y.shape)] - 1)

\* np.linspace(start, stop, num) for scalars: step = (stop - start) / (num - 1),
\* y = arange(num) * step + start, and the last element is set to stop.
LinspaceSteps(start, stop, num, step) ==
    Arr(<<num>>, [k \in 1..num |->
                    IF num > 1 /\ k = num THEN stop
                    ELSE AddF(MulF(Norm(k - 1), step), start)])
linspace(start, stop, num) ==
    LinspaceSteps(start, stop, num, DivF(SubF(stop, start), Norm(num - 1)))

(***************************************************************************)
(* np.log10 and 10 ** y on the energies the model uses as bounds: the      *)
(* lattice d * 10^a with d in {1, 3}.  log10(10^a) = a, and log10(3*10^a)  *)
(* = a + Log10Of3, a field element standing for the irrational log10(3).   *)
(* In double precision 10 ** log10(x) returns x for an exact power of ten  *)
(* (10 ** -1.0 = 0.1), but for other x the result may be off by one unit   *)
(* in the last place (10 ** log10(300.) = 300.0000000000001, and           *)
(* 10 ** log10(0.3) = 0.29999999999999993): r, in -1..1, is that rounding  *)
(* error, and Ulp the field element standing for one unit of it.           *)
(***************************************************************************)
Decades == -2..3
Log10Of3 == Dec(4771, -4)
Ulp == Dec(1, -4)

log10(v) ==
    IF \E a \in Decades : v = Dec(1, a)
      THEN Norm(CHOOSE a \in Decades : v = Dec(1, a))
    ELSE IF \E a \in Decades : v = Dec(3, a)
      THEN AddF(Norm(CHOOSE a \in Decades : v = Dec(3, a)), Log10Of3)
    ELSE MulF(Cube(AddF(v, 29)), 3)

power10(y, r) ==
    IF \E a \in Decades : y = Norm(a)
      THEN Dec(1, CHOOSE a \in Decades : y = Norm(a))
    ELSE IF \E a \in Decades : y = AddF(Norm(a), Log10Of3)
      THEN AddF(Dec(3, CHOOSE a \in Decades : y = AddF(Norm(a), Log10Of3)),
                MulF(Norm(r), Ulp))
    ELSE AddF(Cube(AddF(y, 41)), 13)

\* np.logspace(start, stop, num): 10 ** np.linspace(start, stop, num)
Power10(y, r) == Arr(y.shape, [k \in 1..Size(y.shape) |-> power10(y.data[k], r)])
logspace(start, stop, num, r) == Power10(linspace(start, stop, num), r)

(***************************************************************************)
(* The coefficient tables, lines 21-56.  An entry <<m, e>> is the decimal  *)
(* literal m * 10^e of the source.                                         *)
(***************************************************************************)
POLY_F2008_0 ==
    <<
       << <<349979, -6>>, <<-6182, -5>>, <<-408124, -7>>, <<165414, -7>> >>,
       << <<585425, -6>>, <<-500793, -7>>, <<569309, -7>>, <<-402491, -8>> >>,
       << <<169692, -6>>, <<-258981, -7>>, <<196822, -7>>, <<120505, -8>> >>,
       << <<-122271, -6>>, <<-115532, -7>>, <<537951, -11>>, <<120189, -8>> >>,
       << <<157018, -5>>, <<287896, -6>>, <<-414857, -6>>, <<518158, -7>> >>,
       << <<883195, -6>>, <<431402, -7>>, <<-833599, -7>>, <<102515, -7>> >>,
       << <<190953, -5>>, <<-474704, -7>>, <<-1802, -4>>, <<246652, -7>> >>,
       << <<-129566, -5>>, <<-210952, -6>>, <<273106, -6>>, <<-292752, -7>> >>
    >>

POLY_F2010_0 ==
    <<
       << <<124616, -5>>, <<145903, -5>>, <<-242269, -6>>, <<595459, -7>> >>,
       << <<223976, -5>>, <<-422918, -12>>, <<136458, -7>>, <<253332, -8>> >>,
       << <<141754, -5>>, <<144597, -6>>, <<170433, -7>>, <<639717, -9>> >>,
       << <<248775, -6>>, <<-15089, -5>>, <<630894, -14>>, <<123707, -8>> >>,
       << <<-465119, -6>>, <<-105081, -6>>, <<-895701, -7>>, <<12245, -6>> >>,
       << <<386019, -6>>, <<17543, -7>>, <<-74296, -8>>, <<460881, -9>> >>,
       << <<-645454, -6>>, <<849555, -9>>, <<-428581, -7>>, <<-299302, -8>> >>,
       << <<94893, -5>>, <<197385, -6>>, <<-25066, -7>>, <<-206938, -8>> >>
    >>

POLY_F2013_0 ==
    <<
       << <<25505, -4>>, <<269476, -6>>, <<-258425, -6>>, <<44319, -6>> >>,
       << <<639287, -6>>, <<-185817, -6>>, <<-315636, -7>>, <<10137, -6>> >>,
       << <<163996, -5>>, <<24358, -5>>, <<429873, -7>>, <<377803, -7>> >>,
       << <<-213479, -6>>, <<142464, -6>>, <<15584, -6>>, <<197407, -8>> >>,
       << <<-165764, -6>>, <<339654, -6>>, <<-987971, -8>>, <<402411, -8>> >>,
       << <<-359358, -7>>, <<25033, -6>>, <<-329365, -7>>, <<508057, -8>> >>,
       << <<-626528, -6>>, <<146865, -5>>, <<251853, -6>>, <<-457132, -7>> >>,
       << <<101384, -5>>, <<594301, -7>>, <<-327839, -7>>, <<342688, -8>> >>,
       << <<-129454, -11>>, <<-143623, -6>>, <<282583, -6>>, <<829809, -7>> >>,
       << <<-118622, -6>>, <<179191, -6>>, <<649171, -7>>, <<-399715, -8>> >>,
       << <<29489, -4>>, <<-575821, -6>>, <<248563, -7>>, <<831078, -7>> >>,
       << <<-189515, -6>>, <<353452, -7>>, <<777964, -7>>, <<-406034, -8>> >>
    >>

\* np.array(table): the 2-D array of the table's values
TableArray(t) ==
    Arr(<<Len(t), 4>>,
        [n \in 1..(Len(t) * 4) |->
            LET e == t[((n - 1) \div 4) + 1][((n - 1) % 4) + 1]
            IN Dec(e[1], e[2])])

(***************************************************************************)
(* The functions of ionization.py.                                         *)
(***************************************************************************)
Half == Dec(5, -1)

\* one summand c_a * (y ** c_b) * np.exp(-c_c * (y ** c_d)) of f_y
Term(c_a, c_b, c_c, c_d, y) ==
    Mul(Mul(c_a, Pow(y, c_b)), Exp(Mul(Neg(c_c), Pow(y, c_d))))

rr1987(energy, flux, scale_height, rho) ==
    LET _c1 == Sc(Dec(211685, -5))
        _c2 == Sc(Dec(297035, -5))
        _c3 == Sc(Dec(20971, -4))
        _c4 == Sc(Dec(74054, -5))
        _c5 == Sc(Dec(58795, -5))
        _c6 == Sc(Dec(172746, -5))
        _c7 == Sc(Dec(137459, -5))
        _c8 == Sc(Dec(93296, -5))
        beta == Pow(Div(Mul(rho, scale_height), Sc(MulF(4, Dec(1, -6)))),
                    Sc(DivF(1, Dec(165, -2))))
        y == Div(beta, energy)
        f_y == Add(Term(_c1, _c2, _c3, _c4, y), Term(_c5, _c6, _c7, _c8, y))
    IN Mul(Div(Mul(Sc(Half), flux), scale_height), f_y)

rr1987_mod(energy, flux, scale_height, rho) ==
    LET _c1 == Sc(Dec(3233, -3))
        _c2 == Sc(Dec(256588, -5))
        _c3 == Sc(Dec(22541, -4))
        _c4 == Sc(Dec(7297198, -7))
        _c5 == Sc(Dec(1106907, -6))
        _c6 == Sc(Dec(171349, -5))
        _c7 == Sc(Dec(18835444, -7))
        _c8 == Sc(Dec(86472135, -8))
        y == Div(Pow(Div(Mul(rho, scale_height), Sc(MulF(Dec(46, -1), Dec(1, -6)))),
                     Sc(DivF(1, Dec(165, -2)))),
                 energy)
        f_y == Add(Term(_c1, _c2, _c3, _c4, y), Term(_c5, _c6, _c7, _c8, y))
    IN Mul(Div(Mul(Sc(Half), flux), scale_height), f_y)

\* _cs = np.exp(vpolyval(pij[:, ::-1].T, np.log(energy))).T; Polynomials is
\* the inner vpolyval(pij[:, ::-1].T, x), and Unreversed the same without the
\* column reversal: vpolyval(pij.T, x)
Unreversed(pij, x) == vpolyval(T(pij), x)
Polynomials(pij, x) == vpolyval(T(RevCols(pij)), x)
Coefficients(pij, energy) == T(Exp(Polynomials(pij, Log(energy))))

\* _f_y of fang2008 and fang2010_mono: _c = _cc.reshape((8, -1))
f_y8(_cc, _y) ==
    LET _c == ReshapeRows(_cc, 8)
    IN Add(Term(Row(_c, 0), Row(_c, 1), Row(_c, 2), Row(_c, 3), _y),
           Term(Row(_c, 4), Row(_c, 5), Row(_c, 6), Row(_c, 7), _y))

\* _f_y of fang2013_protons: _c = _cc.reshape((12, -1))
f_y12(_cc, _y) ==
    LET _c == ReshapeRows(_cc, 12)
    IN Add(Add(Term(Row(_c, 0), Row(_c, 1), Row(_c, 2), Row(_c, 3), _y),
               Term(Row(_c, 4), Row(_c, 5), Row(_c, 6), Row(_c, 7), _y)),
           Term(Row(_c, 8), Row(_c, 9), Row(_c, 10), Row(_c, 11), _y))

fang2008(energy, flux, scale_height, rho, pij) ==
    LET _cs == Coefficients(pij, energy)
        y == Div(Pow(Div(Mul(rho, scale_height), Sc(Dec(4, -6))),
                     Sc(DivF(1, Dec(165, -2)))),
                 energy)
        f_y == f_y8(_cs, y)
    IN Div(Mul(Mul(Sc(Half), f_y), flux), scale_height)

\* fang2010_mono without the scaling by the flux: f_y / scale_height
fang2010_mono_unscaled(energy, flux, scale_height, rho, pij) ==
    LET _cs == Coefficients(pij, energy)
        y == Mul(Div(Sc(2), energy),
                 Pow(Div(Mul(rho, scale_height), Sc(Dec(6, -6))), Sc(Dec(7, -1))))
        f_y == f_y8(_cs, y)
    IN Div(f_y, scale_height)

fang2010_mono(energy, flux, scale_height, rho, pij) ==
    LET _cs == Coefficients(pij, energy)
        y == Mul(Div(Sc(2), energy),
                 Pow(Div(Mul(rho, scale_height), Sc(Dec(6, -6))), Sc(Dec(7, -1))))
        f_y == f_y8(_cs, y)
    IN Div(Mul(f_y, flux), scale_height)

fang2013_protons(energy, flux, scale_height, rho, pij) ==
    LET _cs == Coefficients(pij, energy)
        y == Mul(Div(Sc(Dec(75, -1)), energy),
                 Pow(Mul(Mul(Sc(Dec(1, 4)), rho), scale_height), Sc(Dec(9, -1))))
        f_y == f_y12(_cs, y)
    IN Div(Mul(f_y, flux), scale_height)

\* fang2010_spec_int integrating the dissipation without the weight ens:
\* np.trapz(ediss_f10, ens, axis=axis)
fang2010_spec_int_unweighted(ens, dfluxes, scale_height, rho, pij) ==
    LET ediss_f10 == fang2010_mono(Lead2(ens), dfluxes,
                                   Trail1(scale_height), Trail1(rho), pij)
    IN trapz(ediss_f10, ens)

\* axis is the default -1, which is also what fang2010_maxw_int passes
fang2010_spec_int(ens, dfluxes, scale_height, rho, pij) ==
    LET ediss_f10 == fang2010_mono(Lead2(ens), dfluxes,
                                   Trail1(scale_height), Trail1(rho), pij)
    IN trapz(Mul(ediss_f10, ens), ens)

maxwell_general(en, en_0) == Mul(en, Exp(Div(Neg(en), en_0)))

maxwell_pflux(en, en_0) ==
    Mul(Div(Sc(Half), Pow(en_0, Sc(3))), maxwell_general(en, en_0))

\* fang2010_maxw_int passing dflux, of shape (nstep, 1), without transposing it
fang2010_maxw_int_untransposed(energy, flux, scale_height, rho, bounds, nstep, pij, r) ==
    LET bounds_l10 == <<log10(bounds[1]), log10(bounds[2])>>
        ens == logspace(bounds_l10[1], bounds_l10[2], nstep, r)
        dflux == Mul(flux, maxwell_pflux(Trail1(ens), energy))
    IN fang2010_spec_int(ens, dflux, scale_height, rho, pij)

\* bounds is a pair of energies; r is the rounding error of 10 ** y
fang2010_maxw_int(energy, flux, scale_height, rho, bounds, nstep, pij, r) ==
    LET bounds_l10 == <<log10(bounds[1]), log10(bounds[2])>>
        ens == logspace(bounds_l10[1], bounds_l10[2], nstep, r)
        dflux == Mul(flux, maxwell_pflux(Trail1(ens), energy))
    IN fang2010_spec_int(ens, T(dflux), scale_height, rho, pij)

(***************************************************************************)
(* State: the module-level tables, and one call at a time: the function    *)
(* called, the arguments bound to its parameters and the value returned.   *)
(***************************************************************************)
VARIABLES POLY_F2008, POLY_F2010, POLY_F2013, pc, fn, args, result

vars == <<POLY_F2008, POLY_F2010, POLY_F2013, pc, fn, args, result>>
tables == <<POLY_F2008, POLY_F2010, POLY_F2013>>

MonoFns == {"rr1987", "rr1987_mod", "fang2008", "fang2010_mono", "fang2013_protons"}
FangFns == {"fang2008", "fang2010_mono", "fang2013_protons"}

\* an array of the given shape with pairwise distinct elements base+1, base+2, ...
Fill(shape, base) == Arr(shape, [n \in 1..Size(shape) |-> base + n])

Shapes ==
    {<<>>} \cup {<<a>> : a \in 1..MaxDim}
           \cup {<<a, b>> : a \in 1..MaxDim, b \in 1..MaxDim}

NoArgs ==
    [energy |-> Sc(0), flux |-> Sc(0), scale_height |-> Sc(0), rho |-> Sc(0),
     pij |-> "none", bounds |-> <<>>, nstep |-> 0, rnd |-> 0]

\* pij is a reference to a table object: the module-level table of that name
TableOf(name) ==
    CASE name = "POLY_F2008" -> POLY_F2008
      [] name = "POLY_F2013" -> POLY_F2013
      [] OTHER -> POLY_F2010

\* the table bound to pij when the caller passes none
DefaultTable(f) ==
    CASE f = "fang2008" -> "POLY_F2008"
      [] f = "fang2013_protons" -> "POLY_F2013"
      [] f \in {"fang2010_mono", "fang2010_spec_int", "fang2010_maxw_int"}
           -> "POLY_F2010"
      [] OTHER -> "none"

\* tables a caller may pass as pij: the default, or another of the same shape
TablesFor(f) ==
    CASE f \in {"fang2008", "fang2010_mono", "fang2010_spec_int",
                "fang2010_maxw_int"} -> {"POLY_F2008", "POLY_F2010"}
      [] f = "fang2013_protons" -> {"POLY_F2013"}
      [] OTHER -> {"none"}

\* arguments of a mono-energetic function: arrays of rank 0 to 2; flux is a
\* scalar, shaped like energy or 1-D; rho is shaped like scale_height, a scalar
\* or 1-D
MonoShapes ==
    UNION {{<<se, sf, sh, sr>> : sf \in {<<>>, <<MaxDim>>, se},
                                 sr \in {<<>>, <<MaxDim>>, sh}} :
             se \in Shapes, sh \in Shapes}

MonoArgs(f) ==
    {[NoArgs EXCEPT !.energy = Fill(s[1], 0), !.flux = Fill(s[2], 20),
                    !.scale_height = Fill(s[3], 40), !.rho = Fill(s[4], 60),
                    !.pij = DefaultTable(f)] : s \in MonoShapes}

\* strictly ascending energy grids of 1..MaxBins bins, uniform or not
RECURSIVE Ascending(_, _)
Ascending(len, top) ==
    IF len = 0 THEN {<<>>}
    ELSE UNION {{Append(g, v) : v \in (IF g = <<>> THEN 1 ELSE g[Len(g)] + 1)..top} :
                  g \in Ascending(len - 1, top)}

Grids == UNION {Ascending(m, MaxBins + 1) : m \in 1..MaxBins}

\* arguments of fang2010_spec_int: 1-D ens and dfluxes of one length, 1-D
\* scale_height and rho of one length
SpecIntArgs ==
    {[NoArgs EXCEPT !.energy = Arr(<<Len(g)>>, g), !.flux = Fill(<<Len(g)>>, fb),
                    !.scale_height = Fill(<<n>>, 40), !.rho = Fill(<<n>>, rb),
                    !.pij = t] :
        g \in Grids, fb \in {20, 30}, n \in 1..MaxAlt, rb \in {60, 70},
        t \in TablesFor("fang2010_spec_int")}

\* bounds of fang2010_maxw_int, as the decimal literals d * 10^a
BoundLiterals == {<<1, -1>>, <<3, -1>>, <<1, 0>>, <<1, 1>>, <<3, 2>>}
Below(b, c) == b[2] < c[2] \/ (b[2] = c[2] /\ b[1] < c[1])

\* arguments of fang2010_maxw_int: scalar energy and flux, 1-D scale_height
\* and rho, bounds = (lo, hi) with 0 < lo < hi, nstep >= 1
BoundPairs == {b \in BoundLiterals \X BoundLiterals : Below(b[1], b[2])}

MaxwIntArgs ==
    {[NoArgs EXCEPT !.energy = Sc(e), !.flux = Sc(21),
                    !.scale_height = Fill(<<n>>, 40), !.rho = Fill(<<n>>, 60),
                    !.pij = "POLY_F2010", !.bounds = b, !.nstep = m, !.rnd = r] :
        e \in {5, 10}, n \in 1..MaxAlt, b \in BoundPairs, m \in 1..MaxBins,
        r \in -1..1}

\* arguments of maxwell_general and maxwell_pflux: en (in energy) a scalar or
\* 1-D, en_0 (in flux) a scalar
MaxwellArgs ==
    {[NoArgs EXCEPT !.energy = Fill(s, b), !.flux = Sc(e0)] :
        s \in {<<>>} \cup {<<a>> : a \in 1..MaxBins}, b \in {0, 3}, e0 \in {5, 10}}

ArgsOf(f) ==
    CASE f \in MonoFns -> MonoArgs(f)
      [] f = "fang2010_spec_int" -> SpecIntArgs
      [] f = "fang2010_maxw_int" -> MaxwIntArgs
      [] OTHER -> MaxwellArgs

Fns == MonoFns \cup {"fang2010_spec_int", "fang2010_maxw_int",
                     "maxwell_general", "maxwell_pflux"}

\* the energy d * 10^a of a bounds literal
BoundEnergy(b) == Dec(b[1], b[2])

Init ==
    /\ POLY_F2008 = POLY_F2008_0
    /\ POLY_F2010 = POLY_F2010_0
    /\ POLY_F2013 = POLY_F2013_0
    /\ pc = "idle"
    /\ fn = "none"
    /\ args = NoArgs
    /\ result = ShapeError

\* a caller binds the arguments of a call
Prepare ==
    /\ pc = "idle"
    /\ \E f \in Fns : \E a \in ArgsOf(f) : fn' = f /\ args' = a
    /\ pc' = "ready"
    /\ UNCHANGED <<tables, result>>

\* The body of each function.  None of them assigns to an element of an
\* argument or of a table, or passes one as an out= argument: every array
\* operation builds a new array (pij[:, ::-1].T and dflux.T are read-only
\* views), so the arguments and the tables are left as they are.
Call_rr1987 ==
    /\ pc = "ready" /\ fn = "rr1987"
    /\ result' = rr1987(args.energy, args.flux, args.scale_height, args.rho)
    /\ pc' = "done"
    /\ UNCHANGED <<tables, fn, args>>

Call_rr1987_mod ==
    /\ pc = "ready" /\ fn = "rr1987_mod"
    /\ result' = rr1987_mod(args.energy, args.flux, args.scale_height, args.rho)
    /\ pc' = "done"
    /\ UNCHANGED <<tables, fn, args>>

\* fang2008 writing the reversed columns back into the table it is given
\* (pij[:] = pij[:, ::-1].copy()) instead of reading the view pij[:, ::-1]
ReversedInPlace(name, t) ==
    IF args.pij = name THEN [i \in 1..Len(t) |-> Reverse(t[i])] ELSE t
Call_fang2008_inplace ==
    /\ pc = "ready" /\ fn = "fang2008"
    /\ result' = fang2008(args.energy, args.flux, args.scale_height, args.rho,
                          TableArray(TableOf(args.pij)))
    /\ POLY_F2008' = ReversedInPlace("POLY_F2008", POLY_F2008)
    /\ POLY_F2010' = ReversedInPlace("POLY_F2010", POLY_F2010)
    /\ POLY_F2013' = ReversedInPlace("POLY_F2013", POLY_F2013)
    /\ pc' = "done"
    /\ UNCHANGED <<fn, args>>

Call_fang2008 ==
    /\ pc = "ready" /\ fn = "fang2008"
    /\ result' = fang2008(args.energy, args.flux, args.scale_height, args.rho,
                          TableArray(TableOf(args.pij)))
    /\ pc' = "done"
    /\ UNCHANGED <<tables, fn, args>>

Call_fang2010_mono ==
    /\ pc = "ready" /\ fn = "fang2010_mono"
    /\ result' = fang2010_mono(args.energy, args.flux, args.scale_height, args.rho,
                               TableArray(TableOf(args.pij)))
    /\ pc' = "done"
    /\ UNCHANGED <<tables, fn, args>>

Call_fang2013_protons ==
    /\ pc = "ready" /\ fn = "fang2013_protons"
    /\ result' = fang2013_protons(args.energy, args.flux, args.scale_height,
                                  args.rho, TableArray(TableOf(args.pij)))
    /\ pc' = "done"
    /\ UNCHANGED <<tables, fn, args>>

Call_fang2010_spec_int ==
    /\ pc = "ready" /\ fn = "fang2010_spec_int"
    /\ result' = fang2010_spec_int(args.energy, args.flux, args.scale_height,
                                   args.rho, TableArray(TableOf(args.pij)))
    /\ pc' = "done"
    /\ UNCHANGED <<tables, fn, args>>

Call_fang2010_maxw_int ==
    /\ pc = "ready" /\ fn = "fang2010_maxw_int"
    /\ result' = fang2010_maxw_int(args.energy, args.flux, args.scale_height,
                                   args.rho,
                                   <<BoundEnergy(args.bounds[1]),
                                     BoundEnergy(args.bounds[2])>>,
                                   args.nstep, TableArray(TableOf(args.pij)), args.rnd)
    /\ pc' = "done"
    /\ UNCHANGED <<tables, fn, args>>

Call_maxwell_general ==
    /\ pc = "ready" /\ fn = "maxwell_general"
    /\ result' = maxwell_general(args.energy, args.flux)
    /\ pc' = "done"
    /\ UNCHANGED <<tables, fn, args>>

Call_maxwell_pflux ==
    /\ pc = "ready" /\ fn = "maxwell_pflux"
    /\ result' = maxwell_pflux(args.energy, args.flux)
    /\ pc' = "done"
    /\ UNCHANGED <<tables, fn, args>>

\* the call has returned (or raised); the caller goes on to the next call
Return ==
    /\ pc = "done"
    /\ pc' = "idle"
    /\ fn' = "none"
    /\ args' = NoArgs
    /\ result' = ShapeError
    /\ UNCHANGED tables

Next ==
    \/ Prepare
    \/ Call_rr1987
    \/ Call_rr1987_mod
    \/ Call_fang2008
    \/ Call_fang2010_mono
    \/ Call_fang2013_protons
    \/ Call_fang2010_spec_int
    \/ Call_fang2010_maxw_int
    \/ Call_maxwell_general
    \/ Call_maxwell_pflux
    \/ Return

Spec == Init /\ [][Next]_vars

(***************************************************************************)
(* The polynomial evaluation on its own: vpolyval(pij[:, ::-1].T, x) for   *)
(* tables of one or two rows of small integer coefficients (bound to the   *)
(* name POLY_F2008) as well as for the tables of the module, and for       *)
(* scalar, 1-D and 2-D x.                                                  *)
(***************************************************************************)
Coefs == {-2, 0, 3}
PolyRows == {<<<<c0, 0>>, <<c1, 0>>, <<c2, 0>>, <<c3, 0>>>> :
                c0 \in Coefs, c1 \in Coefs, c2 \in Coefs, c3 \in Coefs}
PolyTables == {<<r>> : r \in PolyRows} \cup {<<r, Reverse(r)>> : r \in PolyRows}

\* x: 0 (the logarithm of 1 keV), integers and a fraction
XVals == {0, 1, Norm(-2), Half}
XArrays ==
    {Sc(v) : v \in XVals}
      \cup {Arr(<<MaxAlt>>, d) : d \in [1..MaxAlt -> XVals]}
      \cup {Arr(<<1, 2>>, <<v, 0>>) : v \in XVals}
      \cup {Arr(<<2, 1>>, <<0, v>>) : v \in XVals}

InitPoly ==
    /\ POLY_F2008 \in PolyTables
    /\ POLY_F2010 = POLY_F2010_0
    /\ POLY_F2013 = POLY_F2013_0
    /\ pc = "idle"
    /\ fn = "none"
    /\ args = NoArgs
    /\ result = ShapeError

PreparePoly ==
    /\ pc = "idle"
    /\ \E x \in XArrays : \E t \in {"POLY_F2008", "POLY_F2010", "POLY_F2013"} :
          args' = [NoArgs EXCEPT !.energy = x, !.pij = t]
    /\ fn' = "vpolyval"
    /\ pc' = "ready"
    /\ UNCHANGED <<tables, result>>

Call_vpolyval ==
    /\ pc = "ready" /\ fn = "vpolyval"
    /\ result' = Polynomials(TableArray(TableOf(args.pij)), args.energy)
    /\ pc' = "done"
    /\ UNCHANGED <<tables, fn, args>>

NextPoly ==
    \/ PreparePoly
    \/ Call_vpolyval
    \/ Return

SpecPoly == InitPoly /\ [][NextPoly]_vars

(***************************************************************************)
(* The sign of the results.  The arrays hold IEEE-754 doubles, and one     *)
(* element of a result is computed from one element of each argument (and  *)
(* from the coefficients of one element of energy, coef_energy).  A double *)
(* is abstracted to its class: NaN, -inf (NI), negative finite (N), zero   *)
(* (Z), positive finite (P) or +inf (PI), and to whether an infinity arose *)
(* while it was computed (inf).  An operation on classes yields every      *)
(* class the operation on doubles can yield: a product of two positive     *)
(* doubles is positive, or underflows to zero, or overflows to +inf.       *)
(***************************************************************************)
Infinite(c) == c \in {"NI", "PI"}
Sgn(c) == IF c \in {"N", "NI"} THEN -1 ELSE 1
Fin(sg) == IF sg < 0 THEN "N" ELSE "P"
Inf(sg) == IF sg < 0 THEN "NI" ELSE "PI"

\* a * b: the classes of the product and whether an infinity arises in it
MulK(a, b) ==
    IF a = "NaN" \/ b = "NaN" THEN {<<"NaN", FALSE>>}
    ELSE IF (a = "Z" /\ Infinite(b)) \/ (b = "Z" /\ Infinite(a)) THEN {<<"NaN", FALSE>>}
    ELSE IF a = "Z" \/ b = "Z" THEN {<<"Z", FALSE>>}
    ELSE IF Infinite(a) \/ Infinite(b) THEN {<<Inf(Sgn(a) * Sgn(b)), FALSE>>}
    ELSE {<<Fin(Sgn(a) * Sgn(b)), FALSE>>, <<"Z", FALSE>>, <<Inf(Sgn(a) * Sgn(b)), TRUE>>}

\* a / b (numpy: x / 0 is an infinity, 0 / 0 and inf / inf are NaN)
DivK(a, b) ==
    IF a = "NaN" \/ b = "NaN" THEN {<<"NaN", FALSE>>}
    ELSE IF (a = "Z" /\ b = "Z") \/ (Infinite(a) /\ Infinite(b)) THEN {<<"NaN", FALSE>>}
    ELSE IF b = "Z" THEN {<<"PI", TRUE>>, <<"NI", TRUE>>}
    ELSE IF a = "Z" \/ Infinite(b) THEN {<<"Z", FALSE>>}
    ELSE IF Infinite(a) THEN {<<Inf(Sgn(a) * Sgn(b)), FALSE>>}
    ELSE {<<Fin(Sgn(a) * Sgn(b)), FALSE>>, <<"Z", FALSE>>, <<Inf(Sgn(a) * Sgn(b)), TRUE>>}

\* a + b
AddK(a, b) ==
    IF a = "NaN" \/ b = "NaN" THEN {<<"NaN", FALSE>>}
    ELSE IF Infinite(a) /\ Infinite(b) /\ a # b THEN {<<"NaN", FALSE>>}
    ELSE IF Infinite(a) THEN {<<a, FALSE>>}
    ELSE IF Infinite(b) THEN {<<b, FALSE>>}
    ELSE IF a = "Z" THEN {<<b, FALSE>>}
    ELSE IF b = "Z" THEN {<<a, FALSE>>}
    ELSE IF Sgn(a) = Sgn(b) THEN {<<Fin(Sgn(a)), FALSE>>, <<Inf(Sgn(a)), TRUE>>}
    ELSE {<<"N", FALSE>>, <<"Z", FALSE>>, <<"P", FALSE>>}

\* a ** b (C pow): x ** 0 = 1 and 1 ** y = 1 for every x and y, a negative
\* base with a non-integer exponent is NaN
PowK(a, b) ==
    IF b = "Z" THEN {<<"P", FALSE>>}
    ELSE IF a = "NaN" THEN {<<"NaN", FALSE>>}
    ELSE IF b = "NaN" THEN (IF a = "P" THEN {<<"NaN", FALSE>>, <<"P", FALSE>>}
                            ELSE {<<"NaN", FALSE>>})
    ELSE IF a = "Z" THEN (IF Sgn(b) > 0 THEN {<<"Z", FALSE>>}
                          ELSE {<<"PI", TRUE>>, <<"NI", TRUE>>})
    ELSE IF a = "PI" THEN (IF Sgn(b) > 0 THEN {<<"PI", FALSE>>} ELSE {<<"Z", FALSE>>})
    ELSE IF a = "NI" THEN (IF Sgn(b) > 0 THEN {<<"PI", FALSE>>, <<"NI", FALSE>>}
                           ELSE {<<"Z", FALSE>>})
    ELSE IF Infinite(b) THEN {<<"Z", FALSE>>, <<"P", FALSE>>, <<"PI", TRUE>>}
    ELSE IF a = "P" THEN {<<"P", FALSE>>, <<"Z", FALSE>>, <<"PI", TRUE>>}
    ELSE {<<"NaN", FALSE>>, <<"N", FALSE>>, <<"P", FALSE>>, <<"Z", FALSE>>,
          <<"NI", TRUE>>, <<"PI", TRUE>>}

\* np.exp, np.log and unary minus
ExpK(a) ==
    CASE a = "NaN" -> {<<"NaN", FALSE>>}
      [] a = "NI" -> {<<"Z", FALSE>>}
      [] a = "N" -> {<<"P", FALSE>>, <<"Z", FALSE>>}
      [] a = "Z" -> {<<"P", FALSE>>}
      [] a = "P" -> {<<"P", FALSE>>, <<"PI", TRUE>>}
      [] OTHER -> {<<"PI", FALSE>>}
LogK(a) ==
    CASE a \in {"NaN", "NI", "N"} -> {<<"NaN", FALSE>>}
      [] a = "Z" -> {<<"NI", TRUE>>}
      [] a = "P" -> {<<"N", FALSE>>, <<"Z", FALSE>>, <<"P", FALSE>>}
      [] OTHER -> {<<"PI", FALSE>>}
NegK(a) ==
    CASE a = "NI" -> {<<"PI", FALSE>>}
      [] a = "N" -> {<<"P", FALSE>>}
      [] a = "P" -> {<<"N", FALSE>>}
      [] a = "PI" -> {<<"NI", FALSE>>}
      [] OTHER -> {<<a, FALSE>>}

\* an abstract double, and the operations on sets of them
Dbl(c, i) == [cls |-> c, inf |-> i]
Pc == {Dbl("P", FALSE)}
Lift2(K(_, _), A, B) ==
    UNION {{Dbl(k[1], a.inf \/ b.inf \/ k[2]) : k \in K(a.cls, b.cls)} :
             a \in A, b \in B}
Lift1(K(_), A) ==
    UNION {{Dbl(k[1], a.inf \/ k[2]) : k \in K(a.cls)} : a \in A}
MulS(A, B) == Lift2(MulK, A, B)
DivS(A, B) == Lift2(DivK, A, B)
AddS(A, B) == Lift2(AddK, A, B)
PowS(A, B) == Lift2(PowK, A, B)
ExpS(A) == Lift1(ExpK, A)
LogS(A) == Lift1(LogK, A)
NegS(A) == Lift1(NegK, A)

\* An energy is abstracted to "R", a double in [0.1, 1000], or to the class
\* of a double outside that range: "P", "Z" or "N".
EnergyClasses == {"R", "P", "Z", "N"}
InputClasses == {"N", "Z", "P"}
ClsOf(e) == IF e = "R" THEN "P" ELSE e
Energy(e) == {Dbl(ClsOf(e), FALSE)}

\* the class of a literal of a table, and the least integer >= its magnitude
LiteralCls(c) == IF c[1] > 0 THEN "P" ELSE IF c[1] < 0 THEN "N" ELSE "Z"
Abs(n) == IF n < 0 THEN -n ELSE n
RECURSIVE TenTo(_)
TenTo(n) == IF n = 0 THEN 1 ELSE 10 * TenTo(n - 1)
CeilAbs(c) ==
    IF c[1] = 0 THEN 0
    ELSE IF c[2] >= 0 THEN Abs(c[1]) * TenTo(c[2])
    ELSE IF c[2] < -8 THEN 1
    ELSE (Abs(c[1]) + TenTo(-c[2]) - 1) \div TenTo(-c[2])

\* a bound of |c0 + c1*x + c2*x^2 + c3*x^3| for |x| <= b
RowBound(row, b) ==
    CeilAbs(row[1]) + CeilAbs(row[2]) * b + CeilAbs(row[3]) * b * b
      + CeilAbs(row[4]) * b * b * b

\* np.polyval on the reversed row, on classes: y = 0; y = y * x + c for
\* c = c3, c2, c1, c0
RECURSIVE PolyvalS(_, _, _, _)
PolyvalS(row, X, Y, k) ==
    IF k = 0 THEN Y
    ELSE PolyvalS(row, X, AddS(MulS(Y, X), {Dbl(LiteralCls(row[k]), FALSE)}), k - 1)

\* One coefficient of _cs, exp(polyval(row[::-1], log(energy))).  For an
\* energy in [0.1, 1000], |log(energy)| <= 7, and when the bound of the
\* polynomial is below 709 the exponential neither overflows nor underflows
\* (exp(709) < 1.8e308, exp(-709) > 2.3e-308): the coefficient is positive.
CoefficientS(row, e) ==
    IF e = "R" /\ RowBound(row, 7) < 709 THEN Pc
    ELSE ExpS(PolyvalS(row, LogS(Energy(e)), {Dbl("Z", FALSE)}, 4))

\* c_a * (y ** c_b) * np.exp(-c_c * (y ** c_d)) with the exponential negated
\* instead of its argument: c_a * (y ** c_b) * -np.exp(c_c * (y ** c_d))
TermS_negated(c_a, c_b, c_c, c_d, Y) ==
    MulS(MulS(c_a, PowS(Y, c_b)), NegS(ExpS(MulS(c_c, PowS(Y, c_d)))))

TermS(c_a, c_b, c_c, c_d, Y) ==
    MulS(MulS(c_a, PowS(Y, c_b)), ExpS(MulS(NegS(c_c), PowS(Y, c_d))))

\* The literals of rr1987 and rr1987_mod are all positive, and so are the
\* constants 4 * 1e-6, 4.6 * 1e-6, 4e-6, 6e-6, 1 / 1.65, 0.7, 0.9, 0.5, 2.,
\* 7.5 and 1e4 of the five functions: Pc.
f_yS(Y) == AddS(TermS(Pc, Pc, Pc, Pc, Y), TermS(Pc, Pc, Pc, Pc, Y))

rr1987_cls(energy, flux, scale_height, rho) ==
    MulS(DivS(MulS(Pc, flux), scale_height),
         f_yS(DivS(PowS(DivS(MulS(rho, scale_height), Pc), Pc),
                   energy)))

rr1987_mod_cls(energy, flux, scale_height, rho) ==
    MulS(DivS(MulS(Pc, flux), scale_height),
         f_yS(DivS(PowS(DivS(MulS(rho, scale_height), Pc), Pc),
                   energy)))

f_y8S(t, e, Y) ==
    AddS(TermS(CoefficientS(t[1], e), CoefficientS(t[2], e),
               CoefficientS(t[3], e), CoefficientS(t[4], e), Y),
         TermS(CoefficientS(t[5], e), CoefficientS(t[6], e),
               CoefficientS(t[7], e), CoefficientS(t[8], e), Y))

f_y12S(t, e, Y) ==
    AddS(f_y8S(t, e, Y),
         TermS(CoefficientS(t[9], e), CoefficientS(t[10], e),
               CoefficientS(t[11], e), CoefficientS(t[12], e), Y))

fang2008_cls(energy, coef_energy, flux, scale_height, rho, pij) ==
    DivS(MulS(MulS(Pc,
                   f_y8S(pij, coef_energy,
                         DivS(PowS(DivS(MulS(rho, scale_height), Pc), Pc),
                              energy))),
              flux),
         scale_height)

fang2010_mono_cls(energy, coef_energy, flux, scale_height, rho, pij) ==
    DivS(MulS(f_y8S(pij, coef_energy,
                    MulS(DivS(Pc, energy),
                         PowS(DivS(MulS(rho, scale_height), Pc), Pc))),
              flux),
         scale_height)

fang2013_protons_cls(energy, coef_energy, flux, scale_height, rho, pij) ==
    DivS(MulS(f_y12S(pij, coef_energy,
                     MulS(DivS(Pc, energy),
                          PowS(MulS(MulS(Pc, rho), scale_height), Pc))),
              flux),
         scale_height)

ClsArgs(f) ==
    {[energy |-> e, coef_energy |-> ec, flux |-> fl, scale_height |-> h,
      rho |-> r, pij |-> DefaultTable(f)] :
        e \in EnergyClasses,
        ec \in (IF f \in FangFns THEN EnergyClasses ELSE {"none"}),
        fl \in InputClasses, h \in InputClasses, r \in InputClasses}

In(c) == {Dbl(c, FALSE)}

PrepareCls ==
    /\ pc = "idle"
    /\ \E f \in MonoFns : \E a \in ClsArgs(f) : fn' = f /\ args' = a
    /\ pc' = "ready"
    /\ UNCHANGED <<tables, result>>

Call_rr1987_cls ==
    /\ pc = "ready" /\ fn = "rr1987"
    /\ result' \in rr1987_cls(Energy(args.energy), In(args.flux),
                              In(args.scale_height), In(args.rho))
    /\ pc' = "done"
    /\ UNCHANGED <<tables, fn, args>>

Call_rr1987_mod_cls ==
    /\ pc = "ready" /\ fn = "rr1987_mod"
    /\ result' \in rr1987_mod_cls(Energy(args.energy), In(args.flux),
                                  In(args.scale_height), In(args.rho))
    /\ pc' = "done"
    /\ UNCHANGED <<tables, fn, args>>

Call_fang2008_cls ==
    /\ pc = "ready" /\ fn = "fang2008"
    /\ result' \in fang2008_cls(Energy(args.energy), args.coef_energy,
                                In(args.flux), In(args.scale_height),
                                In(args.rho), TableOf(args.pij))
    /\ pc' = "done"
    /\ UNCHANGED <<tables, fn, args>>

Call_fang2010_mono_cls ==
    /\ pc = "ready" /\ fn = "fang2010_mono"
    /\ result' \in fang2010_mono_cls(Energy(args.energy), args.coef_energy,
                                     In(args.flux), In(args.scale_height),
                                     In(args.rho), TableOf(args.pij))
    /\ pc' = "done"
    /\ UNCHANGED <<tables, fn, args>>

Call_fang2013_protons_cls ==
    /\ pc = "ready" /\ fn = "fang2013_protons"
    /\ result' \in fang2013_protons_cls(Energy(args.energy), args.coef_energy,
                                        In(args.flux), In(args.scale_height),
                                        In(args.rho), TableOf(args.pij))
    /\ pc' = "done"
    /\ UNCHANGED <<tables, fn, args>>

NextCls ==
    \/ PrepareCls
    \/ Call_rr1987_cls
    \/ Call_rr1987_mod_cls
    \/ Call_fang2008_cls
    \/ Call_fang2010_mono_cls
    \/ Call_fang2013_protons_cls
    \/ Return

SpecCls == Init /\ [][NextCls]_vars

(***************************************************************************)
(* Helpers of the statements below.                                        *)
(***************************************************************************)
\* the scalar call f(e, fl, h, r) with the table a.pij, as one value
ScalarCall(f, e, fl, h, r, pij) ==
    (CASE f = "rr1987" -> rr1987(Sc(e), Sc(fl), Sc(h), Sc(r))
       [] f = "rr1987_mod" -> rr1987_mod(Sc(e), Sc(fl), Sc(h), Sc(r))
       [] f = "fang2008" -> fang2008(Sc(e), Sc(fl), Sc(h), Sc(r), TableArray(TableOf(pij)))
       [] f = "fang2010_mono" ->
            fang2010_mono(Sc(e), Sc(fl), Sc(h), Sc(r), TableArray(TableOf(pij)))
       [] f = "fang2013_protons" ->
            fang2013_protons(Sc(e), Sc(fl), Sc(h), Sc(r), TableArray(TableOf(pij)))).data[1]

\* the arguments have the form e[:, None], flux or flux[:, None], H[None, :],
\* r[None, :] for 1-D e, flux of length M and 1-D H, r of length N
OuterForm(a) ==
    /\ Len(a.energy.shape) = 2 /\ a.energy.shape[2] = 1
    /\ a.flux.shape \in {<<>>, a.energy.shape}
    /\ Len(a.scale_height.shape) = 2 /\ a.scale_height.shape[1] = 1
    /\ a.rho.shape = a.scale_height.shape

\* the (M, N) array of the scalar calls for arguments of that form
OuterExpected(f, a) ==
    Arr(<<a.energy.shape[1], a.scale_height.shape[2]>>,
        [n \in 1..(a.energy.shape[1] * a.scale_height.shape[2]) |->
            ScalarCall(f,
                       a.energy.data[((n - 1) \div a.scale_height.shape[2]) + 1],
                       IF a.flux.shape = <<>> THEN a.flux.data[1]
                       ELSE a.flux.data[((n - 1) \div a.scale_height.shape[2]) + 1],
                       a.scale_height.data[((n - 1) % a.scale_height.shape[2]) + 1],
                       a.rho.data[((n - 1) % a.scale_height.shape[2]) + 1],
                       a.pij)])

\* C1: for each of the five mono-energetic functions and 1-D e, flux (or a
\* scalar flux) of length M and 1-D H, r of length N, the call
\* f(e[:, None], flux, H[None, :], r[None, :]) returns an array of shape
\* (M, N) whose entry [i, j] is the scalar call f(e[i], flux[i], H[j], r[j]).
C1_OuterProduct ==
    (pc = "done" /\ fn \in MonoFns /\ OuterForm(args))
        => result = OuterExpected(fn, args)

\* what does hold of C1: the two Roble and Ridley functions, which use no
\* coefficient array, return the (M, N) array of the scalar calls
C1_OuterProduct_rr ==
    (pc = "done" /\ fn \in {"rr1987", "rr1987_mod"} /\ OuterForm(args))
        => result = OuterExpected(fn, args)

C1_Witness_rr ==
    /\ pc = "done" /\ fn = "rr1987" /\ OuterForm(args)
    /\ args.energy.shape = <<2, 1>> /\ args.scale_height.shape = <<1, 3>>
    /\ result.ok

\* standard broadcasting of the four arguments: on every (right-aligned) axis
\* the extents other than 1 are equal
Extent(shape, k, L) == IF k <= L - Len(shape) THEN 1 ELSE shape[k - (L - Len(shape))]
ArgShapes(a) == <<a.energy.shape, a.flux.shape, a.scale_height.shape, a.rho.shape>>
Rank(a) ==
    Max2(Max2(Len(a.energy.shape), Len(a.flux.shape)),
         Max2(Len(a.scale_height.shape), Len(a.rho.shape)))
AllBroadcastable(a) ==
    \A k \in 1..Rank(a) :
        Cardinality({Extent(ArgShapes(a)[q], k, Rank(a)) : q \in 1..4} \ {1}) <= 1
CommonShape(a) ==
    [k \in 1..Rank(a) |->
        IF \A q \in 1..4 : Extent(ArgShapes(a)[q], k, Rank(a)) = 1 THEN 1
        ELSE CHOOSE n \in {Extent(ArgShapes(a)[q], k, Rank(a)) : q \in 1..4} : n # 1]

\* C8: for each of the five mono-energetic functions, when the shapes of
\* energy, flux, scale_height and rho cannot all be broadcast together the
\* call fails with a shape error and returns no value.
C8_ShapeError ==
    (pc = "done" /\ fn \in MonoFns /\ ~AllBroadcastable(args)) => ~result.ok

C8_Witness ==
    /\ pc = "done" /\ fn = "fang2010_mono" /\ ~AllBroadcastable(args)
    /\ Compatible(args.energy.shape, args.scale_height.shape)
    /\ Compatible(args.rho.shape, args.scale_height.shape)
    /\ ~result.ok

\* the cubic c0 + c1*x + c2*x^2 + c3*x^3 of a table row, in the field
RowCubic(row, x) ==
    AddF(AddF(Dec(row[1][1], row[1][2]), MulF(Dec(row[2][1], row[2][2]), x)),
         AddF(MulF(Dec(row[3][1], row[3][2]), MulF(x, x)),
              MulF(Dec(row[4][1], row[4][2]), MulF(x, MulF(x, x)))))

\* the coefficient array has the row axis first and then the axes of energy
\* in their order, entry [r, i, k, ...] being the coefficient of row r for
\* energy[i, k, ...]
CoefficientLayout(a) ==
    /\ Coefficients(TableArray(TableOf(a.pij)), a.energy).shape
         = <<Len(TableOf(a.pij))>> \o a.energy.shape
    /\ \A r \in 1..Len(TableOf(a.pij)) : \A n \in 1..Size(a.energy.shape) :
         Coefficients(TableArray(TableOf(a.pij)), a.energy)
              .data[(r - 1) * Size(a.energy.shape) + n]
           = ExpF(RowCubic(TableOf(a.pij)[r], LogF(a.energy.data[n])))

\* every element of a returned array combines the coefficients and the y of
\* one and the same energy element: it is the scalar call on the elements of
\* the four arguments that broadcasting aligns at its index (the shape of
\* the array is not constrained: a call with scalars only returns shape (1,))
AlignedResult(f, a, res) ==
    /\ AllBroadcastable(a)
    /\ Compatible(res.shape, CommonShape(a))
    /\ \A n \in 1..Size(res.shape) :
         res.data[n] = ScalarCall(f, BAt(a.energy, Unravel(n - 1, res.shape)),
                                  BAt(a.flux, Unravel(n - 1, res.shape)),
                                  BAt(a.scale_height, Unravel(n - 1, res.shape)),
                                  BAt(a.rho, Unravel(n - 1, res.shape)), a.pij)

\* C9: in fang2008, fang2010_mono and fang2013_protons, for a table of shape
\* (R, 4) and energy of shape (M, K, ...) the coefficient array has shape
\* (R, M, K, ...), entry [r, i, k, ...] being the coefficient of row r for
\* energy[i, k, ...], and the reshape to (R, -1) and the multiplication with
\* y never pair a coefficient of one energy element with the y of another.
C9_CoefficientLayout ==
    (pc = "done" /\ fn \in FangFns)
        => /\ CoefficientLayout(args)
           /\ result.ok => AlignedResult(fn, args, result)

\* the two parts of C9, each of which fails on its own
C9_LayoutOnly == (pc = "done" /\ fn \in FangFns) => CoefficientLayout(args)
C9_PairingOnly ==
    (pc = "done" /\ fn \in FangFns /\ result.ok) => AlignedResult(fn, args, result)

\* C5: for 1-D ens, dfluxes of length M and 1-D scale_height, rho of length N,
\* fang2010_spec_int returns an array of shape (N): only the altitude axis.
C5_ShapeN ==
    (pc = "done" /\ fn = "fang2010_spec_int")
        => (result.ok /\ result.shape = args.scale_height.shape)

C5_Witness_Rank2 ==
    /\ pc = "done" /\ fn = "fang2010_spec_int" /\ result.ok
    /\ args.energy.shape = <<3>> /\ args.scale_height.shape = <<2>>
    /\ result.shape = <<1, 2>>

\* g[j, k] = fang2010_mono(ens[k], dfluxes[k], scale_height[j], rho[j]) * ens[k]
Integrand(a, j, k) ==
    MulF(ScalarCall("fang2010_mono", a.energy.data[k], a.flux.data[k],
                    a.scale_height.data[j], a.rho.data[j], a.pij),
         a.energy.data[k])

\* the sum over k = 1..M-1 of (ens[k+1] - ens[k]) * (g[j,k] + g[j,k+1]) / 2
RECURSIVE TrapezoidSum(_, _, _)
TrapezoidSum(a, j, k) ==
    IF k = 0 THEN 0
    ELSE AddF(TrapezoidSum(a, j, k - 1),
              DivF(MulF(SubF(a.energy.data[k + 1], a.energy.data[k]),
                        AddF(Integrand(a, j, k), Integrand(a, j, k + 1))),
                   2))

\* C4: for 1-D ens, dfluxes of length M >= 2 and 1-D scale_height, rho of
\* length N, fang2010_spec_int returns for each altitude j the trapezoidal sum
\* over the bins of the integrand fang2010_mono(ens[k], dfluxes[k],
\* scale_height[j], rho[j]) * ens[k], on a uniform or non-uniform grid.
C4_Trapezoid ==
    (pc = "done" /\ fn = "fang2010_spec_int" /\ args.energy.shape[1] >= 2)
        => /\ result.ok
           /\ Size(result.shape) = args.scale_height.shape[1]
           /\ \A j \in 1..args.scale_height.shape[1] :
                result.data[j] = TrapezoidSum(args, j, args.energy.shape[1] - 1)

\* a non-uniform grid of three bins and two altitudes
C4_Witness ==
    /\ pc = "done" /\ fn = "fang2010_spec_int" /\ result.ok
    /\ args.energy.data = <<1, 2, 4>> /\ args.scale_height.shape = <<2>>
    /\ result.data[1] # result.data[2]

\* C10: for a single-bin spectrum the trapezoidal sum of fang2010_spec_int
\* runs over zero intervals: the returned value is 0 at every altitude,
\* whatever the energy, the flux, the scale heights and the densities.
C10_SingleBinZero ==
    (pc = "done" /\ fn = "fang2010_spec_int" /\ args.energy.shape = <<1>>)
        => /\ result.ok
           /\ Size(result.shape) = args.scale_height.shape[1]
           /\ \A j \in 1..args.scale_height.shape[1] : result.data[j] = 0

C10_Witness ==
    /\ pc = "done" /\ fn = "fang2010_spec_int" /\ result.ok
    /\ args.energy.shape = <<1>> /\ args.energy.data[1] > 1
    /\ args.scale_height.shape = <<2>> /\ result.data = <<0, 0>>

\* C7: after any sequence of calls the three module-level tables have the
\* shape (8x4, 8x4, 12x4) and the values they had at module load, and no
\* call modifies an array passed to it (a table passed as pij is one of the
\* module-level tables).
C7_Frame ==
    /\ tables = <<POLY_F2008_0, POLY_F2010_0, POLY_F2013_0>>
    /\ TableArray(POLY_F2008).shape = <<8, 4>>
    /\ TableArray(POLY_F2010).shape = <<8, 4>>
    /\ TableArray(POLY_F2013).shape = <<12, 4>>
    /\ [][/\ tables' = tables
          /\ pc = "ready" => (args' = args /\ TableOf(args.pij)' = TableOf(args.pij))]_vars

C7_Witness ==
    /\ pc = "done" /\ fn = "fang2010_maxw_int" /\ args.pij = "POLY_F2010" /\ result.ok

\* log10 of a bounds literal d * 10^a in units of 1/10000 (log10(3) = 0.4771)
LogOf(b) == 10000 * b[2] + (IF b[1] = 3 THEN 4771 ELSE 0)

\* the exponent of grid point k (counted from 0) of n log-spaced points from
\* lo to hi, times (n - 1) * 10000
Exponent(a, k) ==
    (a.nstep - 1) * LogOf(a.bounds[1]) + k * (LogOf(a.bounds[2]) - LogOf(a.bounds[1]))

\* 10 ** (log10(lo) + k * (log10(hi) - log10(lo)) / (nstep - 1)), as computed:
\* with the rounding error of the power
GridPoint(a, k) ==
    power10(DivF(Norm(Exponent(a, k)), Norm((a.nstep - 1) * 10000)), a.rnd)

\* the same grid with the end points exactly lo and hi
ExactGridPoint(a, k) ==
    IF k = 0 THEN BoundEnergy(a.bounds[1])
    ELSE IF k = a.nstep - 1 THEN BoundEnergy(a.bounds[2])
    ELSE GridPoint(a, k)

\* flux * maxwell_pflux(g, energy) = flux * 0.5 / energy^3 * g * exp(-g / energy)
MaxwellFlux(a, g) ==
    MulF(a.flux.data[1],
         MulF(DivF(Half, PowF(a.energy.data[1], 3)),
              MulF(g, ExpF(DivF(NegF(g), a.energy.data[1])))))

\* fang2010_spec_int on the 1-D grid and the 1-D Maxwellian fluxes on it
SpecIntOnGrid(a, grid) ==
    fang2010_spec_int(Arr(<<a.nstep>>, grid),
                      Arr(<<a.nstep>>, [k \in 1..a.nstep |-> MaxwellFlux(a, grid[k])]),
                      a.scale_height, a.rho, TableArray(TableOf(a.pij)))

MaxwCase == pc = "done" /\ fn = "fang2010_maxw_int" /\ args.nstep >= 2

\* C6 as stated: fang2010_maxw_int returns fang2010_spec_int(grid, dflux, ...)
\* for the log-spaced, strictly ascending grid of nstep energies whose first
\* element is lo and whose last element is hi.
C6_ExactEndPoints ==
    MaxwCase =>
        /\ \A k \in 0..(args.nstep - 2) : Exponent(args, k) < Exponent(args, k + 1)
        /\ GridPoint(args, 0) = BoundEnergy(args.bounds[1])
        /\ GridPoint(args, args.nstep - 1) = BoundEnergy(args.bounds[2])
        /\ result = SpecIntOnGrid(args, [k \in 1..args.nstep |->
                                            ExactGridPoint(args, k - 1)] \o <<>>)

\* C6 as amended: the grid is 10 ** (log10(lo) + k * (log10(hi) - log10(lo)) /
\* (nstep - 1)), k = 0..nstep-1, with strictly ascending exponents; its first
\* and last elements are 10 ** log10(lo) and 10 ** log10(hi), which are lo and
\* hi when the power is exact (a power of ten, or no rounding error) and
\* otherwise differ from them by the rounding error.
C6_RoundedEndPoints ==
    MaxwCase =>
        /\ \A k \in 0..(args.nstep - 2) : Exponent(args, k) < Exponent(args, k + 1)
        /\ GridPoint(args, 0) = power10(log10(BoundEnergy(args.bounds[1])), args.rnd)
        /\ GridPoint(args, args.nstep - 1)
             = power10(log10(BoundEnergy(args.bounds[2])), args.rnd)
        /\ \A q \in 1..2 :
             (args.rnd = 0 \/ args.bounds[q][1] = 1)
                => power10(log10(BoundEnergy(args.bounds[q])), args.rnd)
                     = BoundEnergy(args.bounds[q])
        /\ result = SpecIntOnGrid(args, [k \in 1..args.nstep |->
                                            GridPoint(args, k - 1)] \o <<>>)

\* three grid points from 0.1 to 300 (the default bounds), two altitudes
C6_Witness ==
    /\ MaxwCase /\ result.ok
    /\ args.bounds = <<<<1, -1>>, <<3, 2>>>> /\ args.nstep = 3 /\ args.rnd = 1
    /\ args.scale_height.shape = <<2>>
    /\ result.data[1] # 0 /\ result.data[1] # result.data[2]

\* C3: vpolyval(pij[:, ::-1].T, x) has, for every element x[i] of x and every
\* table row r = [c0, c1, c2, c3], the value c0 + c1*x[i] + c2*x[i]^2 +
\* c3*x[i]^3 at [i, r]; for x[i] = 0 that value is c0.
C3_Cubic ==
    (pc = "done" /\ fn = "vpolyval") =>
        /\ result.ok
        /\ result.shape = args.energy.shape \o <<Len(TableOf(args.pij))>>
        /\ \A i \in 1..Size(args.energy.shape) : \A r \in 1..Len(TableOf(args.pij)) :
             /\ result.data[(i - 1) * Len(TableOf(args.pij)) + r]
                  = RowCubic(TableOf(args.pij)[r], args.energy.data[i])
             /\ args.energy.data[i] = 0 =>
                  result.data[(i - 1) * Len(TableOf(args.pij)) + r]
                    = Dec(TableOf(args.pij)[r][1][1], TableOf(args.pij)[r][1][2])

\* a two-row table with c0 # c3, evaluated at x = 0 and at a nonzero x
C3_Witness ==
    /\ pc = "done" /\ fn = "vpolyval" /\ result.ok
    /\ args.pij = "POLY_F2008"
    /\ POLY_F2008[1] = <<<<3, 0>>, <<-2, 0>>, <<0, 0>>, <<-2, 0>>>>
    /\ Len(POLY_F2008) = 2
    /\ args.energy.shape = <<2, 1>> /\ args.energy.data = <<0, Norm(-2)>>
    /\ result.data[1] = 3 /\ result.data[2] = Norm(-2)
    /\ result.data[3] = Norm(3 + 4 + 0 + 16)

\* the arguments the claim is about: energy in [0.1, 1000], the others positive
PositiveInputs ==
    /\ args.energy = "R" /\ args.coef_energy \in {"R", "none"}
    /\ args.flux = "P" /\ args.scale_height = "P" /\ args.rho = "P"

\* C2 as stated: for energy in [0.1, 1000] and positive flux, scale_height
\* and rho, every element of the result of the five functions is
\* non-negative.
C2_NonNegative ==
    (pc = "done" /\ fn \in MonoFns /\ PositiveInputs) =>
        result.cls \in {"Z", "P", "PI"}

\* C2 as amended: for those inputs no element is negative, and every element
\* is non-negative and finite unless an intermediate result overflowed to
\* infinity; then the element may be +inf or NaN (inf * 0).
C2_NeverNegative ==
    (pc = "done" /\ fn \in MonoFns /\ PositiveInputs) =>
        /\ result.cls \in {"Z", "P", "PI", "NaN"}
        /\ ~result.inf => result.cls \in {"Z", "P"}

\* a positive element from positive inputs, without overflow
C2_Witness ==
    /\ pc = "done" /\ fn = "fang2013_protons" /\ PositiveInputs
    /\ result = Dbl("P", FALSE)

\* the sign does depend on the inputs: a negative flux gives a negative element
C2_Witness_NegativeFlux ==
    /\ pc = "done" /\ fn = "rr1987" /\ args.flux = "N" /\ args.energy = "R"
    /\ args.scale_height = "P" /\ args.rho = "P"
    /\ result = Dbl("N", FALSE)
====
